---- MODULE Spec2Model ----
(***************************************************************************)
(* A model of exodus (src/main.rs): a Yew component that reads uploaded    *)
(* images, extracts a Google Authenticator migration payload from the QR   *)
(* symbols of each image and re-expresses every account as an otpauth://   *)
(* URL.                                                                    *)
(*                                                                         *)
(* Spec        the component: App::update driven by Files, Loaded,         *)
(*             ShowSvg and Copied messages.                                *)
(* SpecDecode  the pure function App::migration_from_file applied to       *)
(*             every image of a bounded family.                            *)
(* SpecStale   the component again, with fewer files and one read more.   *)
(* SpecConvert the pure function App::migration_to_output applied to       *)
(*             every account of a bounded family.                          *)
(* SpecFilter  the threshold filter of extract applied to every image of   *)
(*             a bounded family of grayscale images.                       *)
(***************************************************************************)
EXTENDS Integers, Sequences, FiniteSets, TLC

VARIABLES
    readers,    \* App.readers: file name -> the read task registered for it
    output,     \* App.output: the list of converted accounts
    error,      \* App.error: Option<String>
    pending,    \* started reads whose Loaded message has not been handled
    uploads,    \* number of Files messages handled so far
    started,    \* number of reads started so far
    clicks,     \* number of ShowSvg and Copied messages handled so far
    panicked,   \* a panic (unwrap on Err) has stopped the component
    last,       \* the message handled by the latest step
    dbuf,       \* SpecDecode: the buffer given to migration_from_file
    dres,       \* SpecDecode: what migration_from_file did with it
    cparams,    \* SpecConvert: the account given to migration_to_output
    cres,       \* SpecConvert: what migration_to_output returned
    timg,       \* SpecFilter: the grayscale image and the threshold flag
    tres        \* SpecFilter: the image extract hands to rqrr

vars ==
    <<readers, output, error, pending, uploads, started, clicks, panicked, last,
      dbuf, dres, cparams, cres, timg, tres>>

appVars == <<readers, output, error, pending, uploads, started, clicks, panicked, last>>

\* the variables of the specifications of the pure functions
decVars == <<dbuf, dres, cparams, cres, timg, tres>>

----------------------------------------------------------------------------
(* Bounds of the model.                                                    *)

\* symbols detected in one image in one pass
MaxGrids == 2

\* Files messages in one behaviour
MaxUploads == 2

\* files in one Files message
MaxFiles == 2

\* files read in one behaviour
MaxReads == 2

\* ShowSvg and Copied messages in one behaviour
MaxClicks == 2

\* SpecStale: files read in one behaviour
MaxStaleReads == 3

\* length of the over-long issuer used to exceed the QR capacity
LongLen == 500

\* SpecConvert: characters of a name or an issuer
MaxText == 2

\* SpecConvert: bytes of a secret
MaxSecret == 3

\* SpecFilter: pixels of an image
MaxPixels == 1

----------------------------------------------------------------------------
(* Option and Result values.                                               *)

None == <<>>

Some(x) == <<x>>

IsSome(o) == o # <<>>

Unwrap(o) == o[1]

Ok(x) == [tag |-> "Ok", val |-> x]

Err(e) == [tag |-> "Err", err |-> e]

IsOk(r) == r.tag = "Ok"

\* Result<T, E> as IntoIterator: one item for Ok, none for Err.
ResultIter(r) == IF IsOk(r) THEN <<r.val>> ELSE <<>>

RECURSIVE Flatten(_)
\* Iterator::flat_map, given the iterators the closure returned for each
\* item: their items, in order.
Flatten(iters) ==
    IF iters = <<>> THEN <<>>
    ELSE IF Len(iters) = 1 THEN iters[1]
    ELSE LET h == Len(iters) \div 2 IN
         Flatten(SubSeq(iters, 1, h)) \o Flatten(SubSeq(iters, h + 1, Len(iters)))

\* Iterator::next on a fresh iterator: the first item, if any.
First(s) == IF s = <<>> THEN None ELSE Some(Head(s))

----------------------------------------------------------------------------
(* Strings that are processed character by character are sequences of      *)
(* one-character strings; Str joins one into a string.                     *)

RECURSIVE Str(_)
\* the String of the characters cs
Str(cs) ==
    IF cs = <<>> THEN ""
    ELSE IF Len(cs) = 1 THEN cs[1]
    ELSE LET h == Len(cs) \div 2 IN
         Str(SubSeq(cs, 1, h)) \o Str(SubSeq(cs, h + 1, Len(cs)))

\* An issuer so long that the account's URL exceeds the capacity of a QR
\* symbol (every ':' takes three characters in the label and in the query).
LongIssuer == [i \in 1..LongLen |-> ":"]

----------------------------------------------------------------------------
(* proto::OtpParameters and proto::MigrationPayload.                       *)

OtpTypes == {"UNSPECIFIED", "HOTP", "TOTP"}

OtpAlgorithms == {"UNSPECIFIED", "SHA1", "SHA256", "SHA512", "MD5"}

OtpDigitCounts == {"UNSPECIFIED", "SIX", "EIGHT"}

OtpParameters(secret, name, issuer, algorithm, digits, type, counter) ==
    [secret |-> secret, name |-> name, issuer |-> issuer,
     algorithm |-> algorithm, digits |-> digits, type |-> type,
     counter |-> counter]

ParamsTotp ==
    OtpParameters(<<222, 173, 190, 239>>, <<"a", "l", "i", "c", "e">>,
                  <<"e", "x">>, "SHA1", "SIX", "TOTP", 0)

ParamsHotp ==
    OtpParameters(<<72, 105>>, <<"b", "o", "b">>, <<>>,
                  "UNSPECIFIED", "UNSPECIFIED", "HOTP", 7)

ParamsUnspecified ==
    OtpParameters(<<1>>, <<"c">>, <<>>, "SHA256", "EIGHT", "UNSPECIFIED", 0)

ParamsLong ==
    OtpParameters(<<2>>, <<"d">>, LongIssuer, "MD5", "SIX", "TOTP", 0)

MigrationPayload(params) == [otp_parameters |-> params]

\* The payloads the model's QR symbols carry.
PayloadOne == MigrationPayload(<<ParamsTotp>>)

PayloadTwoBad == MigrationPayload(<<ParamsUnspecified, ParamsHotp, ParamsUnspecified>>)

PayloadOneBad == MigrationPayload(<<ParamsHotp, ParamsUnspecified>>)

PayloadLong == MigrationPayload(<<ParamsUnspecified, ParamsLong, ParamsTotp>>)

----------------------------------------------------------------------------
(* An uploaded buffer, seen through the libraries that read it:            *)
(*   image   image::load_from_memory succeeds                              *)
(*   grids   the grids rqrr detects, in detection order, in the plain      *)
(*           (threshold = FALSE) and in the binarized (TRUE) image         *)
(* A grid: decodes (grid.decode succeeds) and its content; a content:      *)
(*   absolute  the text is an absolute URL (url::Url::parse succeeds)      *)
(*   scheme    the scheme as written in the text                           *)
(*   query     the query pairs, in order; the value of a pair is           *)
(*             [base64: base64::decode succeeds,                           *)
(*              message: [wellformed: prost decodes the bytes, payload]]   *)

Message(wellformed, payload) == [wellformed |-> wellformed, payload |-> payload]

Value(base64, message) == [base64 |-> base64, message |-> message]

Content(absolute, scheme, query) ==
    [absolute |-> absolute, scheme |-> scheme, query |-> query]

Grid(decodes, content) == [decodes |-> decodes, content |-> content]

GoodValue(payload) == Value(TRUE, Message(TRUE, payload))

Migration(scheme, payload) ==
    Grid(TRUE, Content(TRUE, scheme, <<<<"data", GoodValue(payload)>>>>))

GridUndecodable == Grid(FALSE, Content(FALSE, "http", <<>>))

GridNotUrl == Grid(TRUE, Content(FALSE, "http", <<>>))

GridHttp == Migration("http", PayloadOne)

GridNoData ==
    Grid(TRUE, Content(TRUE, "otpauth-migration", <<<<"other", GoodValue(PayloadOne)>>>>))

GridNotBase64 ==
    Grid(TRUE, Content(TRUE, "otpauth-migration",
                       <<<<"data", Value(FALSE, Message(TRUE, PayloadOne))>>>>))

GridMalformed ==
    Grid(TRUE, Content(TRUE, "otpauth-migration",
                       <<<<"data", Value(TRUE, Message(FALSE, PayloadOne))>>>>))

GridOne == Migration("otpauth-migration", PayloadOne)

GridOneBad == Migration("otpauth-migration", PayloadOneBad)

GridUpper == Migration("OTPAUTH-MIGRATION", PayloadTwoBad)

\* the grids of SpecDecode's images
Grids ==
    {GridUndecodable, GridNotUrl, GridHttp, GridNoData, GridNotBase64,
     GridMalformed, GridOne, GridUpper}

SeqUpTo(S, n) == UNION {[1..k -> S] : k \in 0..n}

Buffer(image, plain, binarized) ==
    [image |-> image, grids |-> [t \in BOOLEAN |-> IF t THEN binarized ELSE plain]]

NotAnImage == Buffer(FALSE, <<>>, <<>>)

\* the detections of one pass: up to MaxGrids grids
Detections == SeqUpTo(Grids, MaxGrids)

----------------------------------------------------------------------------
(* App::migration_from_file.                                               *)

\* The error image::load_from_memory returns, as Display prints it.
ImageError == "The image format could not be determined"

\* url::Url::parse lowercases the scheme of the URL it returns.
AsciiLowercase(s) == IF s = "OTPAUTH-MIGRATION" THEN "otpauth-migration" ELSE s

UrlParse(content) ==
    IF content.absolute
    THEN Ok([scheme |-> AsciiLowercase(content.scheme), query |-> content.query])
    ELSE Err("relative URL without a base")

\* lines 319-325: grid.decode()? then Url::parse(&content)?
DecodeUrl(grid) ==
    IF ~grid.decodes THEN Err("grid decode error") ELSE UrlParse(grid.content)

\* IsMigrationUrl without the comparison: every URL passes the filter
IsMigrationUrlAny(url) == url.scheme = url.scheme

\* line 326
IsMigrationUrl(url) == url.scheme = "otpauth-migration"

\* lines 328-331: the first query pair whose key is "data"
FindData(url) ==
    First(SelectSeq(url.query, LAMBDA pair : pair[1] = "data"))

\* lines 327-338
DecodeMigration(url) ==
    LET found == FindData(url) IN
    IF ~IsSome(found) THEN Err("could not find data param in url")
    ELSE LET data == Unwrap(found)[2] IN
         IF ~data.base64 THEN Err("base64 decode error")
         ELSE IF ~data.message.wellformed THEN Err("failed to decode Protobuf message")
         ELSE Ok(data.message.payload)

\* lines 317-339: the migrations the iterator chain can yield, in order
Migrations(grids) ==
    LET urls     == Flatten([i \in 1..Len(grids) |-> ResultIter(DecodeUrl(grids[i]))])
        filtered == SelectSeq(urls, IsMigrationUrl)
    IN  Flatten([i \in 1..Len(filtered) |-> ResultIter(DecodeMigration(filtered[i]))])

\* Iterator::last instead of Iterator::next
Final(s) == IF s = <<>> THEN None ELSE Some(s[Len(s)])

\* Extract taking the last migration of the chain
ExtractLast(buffer, threshold) ==
    IF ~buffer.image THEN Err(ImageError)
    ELSE Ok(Final(Migrations(buffer.grids[threshold])))

\* the message decode of line 335 applied outside the closure, where its ?
\* leaves extract
MalformedAhead(grids) ==
    LET urls     == Flatten([i \in 1..Len(grids) |-> ResultIter(DecodeUrl(grids[i]))])
        filtered == SelectSeq(urls, IsMigrationUrl)
        bad(u)   == /\ IsSome(FindData(u))
                    /\ Unwrap(FindData(u))[2].base64
                    /\ ~Unwrap(FindData(u))[2].message.wellformed
    IN  /\ \E i \in 1..Len(filtered) : bad(filtered[i])
        /\ \A i \in 1..Len(filtered) :
              IsOk(DecodeMigration(filtered[i])) => \E j \in 1..(i - 1) : bad(filtered[j])

\* Extract with a malformed message as a hard error
ExtractFatal(buffer, threshold) ==
    IF ~buffer.image THEN Err(ImageError)
    ELSE IF MalformedAhead(buffer.grids[threshold])
    THEN Err("failed to decode Protobuf message")
    ELSE Ok(First(Migrations(buffer.grids[threshold])))

\* ThresholdPixel with 128 itself counted as bright
ThresholdPixelInclusive(sample) == IF sample >= 128 THEN 255 ELSE 0

\* lines 305-309: the sample put in place of pixel[0]
ThresholdPixel(sample) == IF sample > 128 THEN 255 ELSE 0

\* lines 303-311: the samples of the image given to rqrr, from those of
\* to_luma8
ThresholdFilter(img, threshold) ==
    IF threshold THEN [i \in 1..Len(img) |-> ThresholdPixel(img[i])] ELSE img

\* lines 300-342: extract(buffer, threshold)
Extract(buffer, threshold) ==
    IF ~buffer.image THEN Err(ImageError)
    ELSE Ok(First(Migrations(buffer.grids[threshold])))

\* migration_from_file without the second pass
MigrationFromFileOnce(buffer) ==
    [result |-> Extract(buffer, FALSE), passes |-> <<FALSE>>]

\* lines 344-352, with the passes that were run:
\* [result: Result<Option<MigrationPayload>>, passes: the threshold of each
\*  call of extract, in order]
MigrationFromFileRun(buffer) ==
    LET plain == Extract(buffer, FALSE) IN
    IF ~IsOk(plain) THEN [result |-> plain, passes |-> <<FALSE>>]
    ELSE IF IsSome(plain.val) THEN [result |-> plain, passes |-> <<FALSE>>]
    ELSE [result |-> Extract(buffer, TRUE), passes |-> <<FALSE, TRUE>>]

MigrationFromFile(buffer) == MigrationFromFileRun(buffer).result

----------------------------------------------------------------------------
(* App::migration_to_output.                                               *)

Letters ==
    {"a", "b", "c", "d", "e", "f", "g", "h", "i", "j", "k", "l", "m", "n", "o",
     "p", "q", "r", "s", "t", "u", "v", "w", "x", "y", "z",
     "A", "B", "C", "D", "E", "F", "G", "H", "I", "J", "K", "L", "M", "N", "O",
     "P", "Q", "R", "S", "T", "U", "V", "W", "X", "Y", "Z"}

Digits == {"0", "1", "2", "3", "4", "5", "6", "7", "8", "9"}

\* The %XX form of the ASCII characters the model uses besides letters and
\* digits.
PercentCode(c) ==
    CASE c = " " -> <<"%", "2", "0">>
      [] c = "%" -> <<"%", "2", "5">>
      [] c = "&" -> <<"%", "2", "6">>
      [] c = "+" -> <<"%", "2", "B">>
      [] c = "-" -> <<"%", "2", "D">>
      [] c = "." -> <<"%", "2", "E">>
      [] c = "/" -> <<"%", "2", "F">>
      [] c = ":" -> <<"%", "3", "A">>
      [] c = "=" -> <<"%", "3", "D">>
      [] c = "@" -> <<"%", "4", "0">>

\* percent_encoding::utf8_percent_encode(s, NON_ALPHANUMERIC)
Utf8PercentEncode(cs) ==
    Flatten([i \in 1..Len(cs) |->
                IF cs[i] \in Letters \cup Digits THEN <<cs[i]>> ELSE PercentCode(cs[i])])

\* form_urlencoded::byte_serialize: the encoding of keys and values that
\* Serializer::append_pair applies.
ByteSerialize(cs) ==
    Flatten([i \in 1..Len(cs) |->
                IF cs[i] \in Letters \cup Digits \cup {"*", "-", ".", "_"} THEN <<cs[i]>>
                ELSE IF cs[i] = " " THEN <<"+">>
                ELSE PercentCode(cs[i])])

\* form_urlencoded::Serializer: append_pair on the query built so far.
AppendPair(query, key, value) ==
    (IF query = <<>> THEN <<>> ELSE query \o <<"&">>)
        \o ByteSerialize(key) \o <<"=">> \o ByteSerialize(value)

Base32Alphabet ==
    <<"A", "B", "C", "D", "E", "F", "G", "H", "I", "J", "K", "L", "M", "N", "O", "P",
      "Q", "R", "S", "T", "U", "V", "W", "X", "Y", "Z", "2", "3", "4", "5", "6", "7">>

\* bit j (0 = the most significant bit of the first byte) of the bytes,
\* zero past their end
BitAt(bytes, j) ==
    IF j < 8 * Len(bytes)
    THEN (bytes[(j \div 8) + 1] \div (2 ^ (7 - (j % 8)))) % 2
    ELSE 0

\* Base32Chars followed by the '=' that pad it to a multiple of 8 characters
Base32Padded(bytes) ==
    LET n == (8 * Len(bytes) + 4) \div 5
        quint(k) == 16 * BitAt(bytes, 5 * k) + 8 * BitAt(bytes, 5 * k + 1)
                    + 4 * BitAt(bytes, 5 * k + 2) + 2 * BitAt(bytes, 5 * k + 3)
                    + BitAt(bytes, 5 * k + 4)
    IN  [k \in 1..(8 * ((n + 7) \div 8)) |->
            IF k <= n THEN Base32Alphabet[quint(k - 1) + 1] ELSE "="]

\* base32::encode(Alphabet::RFC4648 { padding: false }, bytes), character by
\* character
Base32Chars(bytes) ==
    LET n == (8 * Len(bytes) + 4) \div 5
        quint(k) == 16 * BitAt(bytes, 5 * k) + 8 * BitAt(bytes, 5 * k + 1)
                    + 4 * BitAt(bytes, 5 * k + 2) + 2 * BitAt(bytes, 5 * k + 3)
                    + BitAt(bytes, 5 * k + 4)
    IN  [k \in 1..n |-> Base32Alphabet[quint(k - 1) + 1]]

Base32Encode(bytes) == Str(Base32Chars(bytes))

\* The largest number of bytes a QR symbol of error correction level L
\* holds (version 40, byte mode): QRBuilder::build fails beyond it.
QrCapacityL == 2953

\* lines 409-411: the URL, character by character, is lower-case text,
\* which fast_qr encodes in byte mode
QrBuild(url) == IF Len(url) <= QrCapacityL THEN Ok(url) ELSE Err("EncodedData")

\* lines 414-420: the data URI of the SVG drawing of the symbol of url
SvgDataUri(url) == "data:image/svg+xml," \o "svg(" \o url \o ")"

\* lines 382-388
AlgorithmName(algorithm) ==
    IF algorithm = "UNSPECIFIED" THEN None ELSE Some(algorithm)

\* lines 394-398
DigitCountName(digits) ==
    CASE digits = "UNSPECIFIED" -> None
      [] digits = "SIX" -> Some("6")
      [] digits = "EIGHT" -> Some("8")

\* the characters of the literals of lines 384-387 and 396-397
Chars(name) ==
    CASE name = "SHA1" -> <<"S", "H", "A", "1">>
      [] name = "SHA256" -> <<"S", "H", "A", "2", "5", "6">>
      [] name = "SHA512" -> <<"S", "H", "A", "5", "1", "2">>
      [] name = "MD5" -> <<"M", "D", "5">>
      [] name = "6" -> <<"6">>
      [] name = "8" -> <<"8">>

DigitChars == <<"0", "1", "2", "3", "4", "5", "6", "7", "8", "9">>

RECURSIVE Decimal(_)
\* u64/i64::to_string of a number that is not negative
Decimal(n) ==
    IF n < 10 THEN <<DigitChars[n + 1]>>
    ELSE Append(Decimal(n \div 10), DigitChars[(n % 10) + 1])

\* i64::to_string (line 364)
CounterToString(n) == IF n < 0 THEN <<"-">> \o Decimal(0 - n) ELSE Decimal(n)

\* lines 370-380: the label of the URL
Label(params) ==
    IF params.issuer # <<>>
    THEN Utf8PercentEncode(params.issuer \o <<":">> \o params.name)
    ELSE Utf8PercentEncode(params.name)

\* the keys of lines 359, 364, 371, 391 and 401
Secret == <<"s", "e", "c", "r", "e", "t">>

Counter == <<"c", "o", "u", "n", "t", "e", "r">>

Issuer == <<"i", "s", "s", "u", "e", "r">>

Algorithm == <<"a", "l", "g", "o", "r", "i", "t", "h", "m">>

DigitsKey == <<"d", "i", "g", "i", "t", "s">>

RECURSIVE AppendPairs(_, _)
\* the query after the calls of append_pair with the pairs, in order
AppendPairs(query, pairs) ==
    IF pairs = <<>> THEN query
    ELSE AppendPairs(AppendPair(query, Head(pairs)[1], Head(pairs)[2]), Tail(pairs))

\* QueryString with the issuer appended before the counter
QueryStringIssuerFirst(params) ==
    AppendPairs(<<>>,
        <<<<Secret, Base32Chars(params.secret)>>>>
        \o (IF params.issuer # <<>> THEN <<<<Issuer, params.issuer>>>> ELSE <<>>)
        \o (IF params.type = "HOTP"
            THEN <<<<Counter, CounterToString(params.counter)>>>> ELSE <<>>)
        \o (IF IsSome(AlgorithmName(params.algorithm))
            THEN <<<<Algorithm, Chars(Unwrap(AlgorithmName(params.algorithm)))>>>>
            ELSE <<>>)
        \o (IF IsSome(DigitCountName(params.digits))
            THEN <<<<DigitsKey, Chars(Unwrap(DigitCountName(params.digits)))>>>>
            ELSE <<>>))

\* lines 358-404: the query string, from the calls of append_pair the code
\* makes, in its order
QueryString(params) ==
    AppendPairs(<<>>,
        <<<<Secret, Base32Chars(params.secret)>>>>
        \o (IF params.type = "HOTP"
            THEN <<<<Counter, CounterToString(params.counter)>>>> ELSE <<>>)
        \o (IF params.issuer # <<>> THEN <<<<Issuer, params.issuer>>>> ELSE <<>>)
        \o (IF IsSome(AlgorithmName(params.algorithm))
            THEN <<<<Algorithm, Chars(Unwrap(AlgorithmName(params.algorithm)))>>>>
            ELSE <<>>)
        \o (IF IsSome(DigitCountName(params.digits))
            THEN <<<<DigitsKey, Chars(Unwrap(DigitCountName(params.digits)))>>>>
            ELSE <<>>))

\* lines 361-368
Kind(type) == IF type = "HOTP" THEN <<"h", "o", "t", "p">> ELSE <<"t", "o", "t", "p">>

\* line 407, character by character
UrlChars(params) ==
    <<"o", "t", "p", "a", "u", "t", "h", ":", "/", "/">> \o Kind(params.type)
        \o <<"/">> \o Label(params) \o <<"?">> \o QueryString(params)

Url(params) == Str(UrlChars(params))

Panic == [tag |-> "Panic"]

IsPanic(r) == r.tag = "Panic"

\* lines 355-434: Ok(Output), Err("unknown otp type"), or the panic of the
\* unwrap of line 412 when the symbol cannot be built
MigrationToOutput(params) ==
    IF params.type = "UNSPECIFIED" THEN Err("unknown otp type")
    ELSE IF ~IsOk(QrBuild(UrlChars(params))) THEN Panic
    ELSE LET url == Url(params) IN
         Ok([issuer      |-> Str(params.issuer),
                  name        |-> Str(params.name),
                  secret      |-> Base32Encode(params.secret),
                  kind        |-> IF params.type = "HOTP" THEN "HOTP" ELSE "TOTP",
                  algorithm   |-> AlgorithmName(params.algorithm),
                  digit_count |-> DigitCountName(params.digits),
                  url         |-> url,
                  svg         |-> SvgDataUri(url),
                  show_svg    |-> FALSE,
                  copied      |-> None])

----------------------------------------------------------------------------
(* The files the user can upload.  A File is a handle; its name and the    *)
(* bytes a read of it yields are the file's.                               *)

\* one symbol, found in the plain image
ImageOne == Buffer(TRUE, <<GridOne>>, <<GridOne>>)

\* no symbol carries a migration in either pass
ImageNone == Buffer(TRUE, <<GridNotUrl>>, <<GridUndecodable>>)

\* the symbol is found only in the binarized image
ImageBinarized == Buffer(TRUE, <<GridUndecodable>>, <<GridUpper>>)

\* a symbol of another scheme, then the migration
ImageOneBad == Buffer(TRUE, <<GridHttp, GridOneBad>>, <<>>)

\* a migration with an account whose URL does not fit a QR symbol
ImageLong == Buffer(TRUE, <<Migration("otpauth-migration", PayloadLong)>>, <<>>)

Disk ==
    [one       |-> [name |-> "a.png", buffer |-> ImageOne],
     none      |-> [name |-> "b.png", buffer |-> ImageNone],
     binarized |-> [name |-> "a.png", buffer |-> ImageBinarized],
     text      |-> [name |-> "c.png", buffer |-> NotAnImage],
     onebad    |-> [name |-> "d.png", buffer |-> ImageOneBad],
     long      |-> [name |-> "e.png", buffer |-> ImageLong]]

FileHandles == DOMAIN Disk

\* File::name
Name(file) == Disk[file].name

\* the bytes read_as_bytes passes to its callback
Bytes(file) == Disk[file].buffer

----------------------------------------------------------------------------
(* App::update.  The component is the record                               *)
(*   [readers, output, error, panicked, render]                            *)
(* where render is the value update returned.                              *)

NoCodeMessage ==
    "No valid Google Authenticator Export QR code found in the uploaded image."

App(r, o, e) ==
    [readers |-> r, output |-> o, error |-> e, panicked |-> FALSE, render |-> FALSE]

Current == App(readers, output, error)

\* HashMap::remove
Remove(map, key) == [k \in DOMAIN map \ {key} |-> map[k]]

\* HashMap::insert
Insert(map, key, value) ==
    [k \in DOMAIN map \cup {key} |-> IF k = key THEN value ELSE map[k]]

RECURSIVE Join(_, _)
\* [String]::join
Join(strings, sep) ==
    IF strings = <<>> THEN ""
    ELSE IF Len(strings) = 1 THEN strings[1]
    ELSE strings[1] \o sep \o Join(Tail(strings), sep)

\* lines 102-115
ErrorMessage(errors) ==
    IF errors = <<>> THEN None
    ELSE IF Len(errors) = 1
    THEN Some("One account could not be read: " \o errors[1])
    ELSE Some(ToString(Len(errors)) \o " accounts could not be read: "
              \o Join(errors, ", "))

\* The accounts of the payloads above, and migration_to_output of each
\* (a table, so that the conversion of an account is computed once).
Accounts == {ParamsTotp, ParamsHotp, ParamsUnspecified, ParamsLong}

Converted == [params \in Accounts |-> MigrationToOutput(params)]

RECURSIVE Convert(_, _, _)
\* lines 95-100: the loop over migration.otp_parameters, from the output
\* list and the errors collected so far; a panic ends it where it happens
Convert(params, out, errors) ==
    IF params = <<>> THEN [output |-> out, errors |-> errors, panicked |-> FALSE]
    ELSE LET res == Converted[Head(params)] IN
         IF IsPanic(res) THEN [output |-> out, errors |-> errors, panicked |-> TRUE]
         ELSE IF IsOk(res) THEN Convert(Tail(params), Append(out, res.val), errors)
         ELSE Convert(Tail(params), out, Append(errors, res.err))

\* Decoded with the Err arm merged into the Ok(None) arm
DecodedNoCode(app, buffer) ==
    LET res == MigrationFromFile(buffer) IN
    IF IsOk(res) /\ IsSome(res.val)
    THEN LET done == Convert(Unwrap(res.val).otp_parameters, app.output, <<>>) IN
         IF done.panicked
         THEN [app EXCEPT !.output = done.output, !.panicked = TRUE]
         ELSE [app EXCEPT !.output = done.output,
                          !.error = ErrorMessage(done.errors),
                          !.render = TRUE]
    ELSE [app EXCEPT !.output = <<>>, !.error = Some(NoCodeMessage), !.render = TRUE]

\* Decoded with the output list emptied before the accounts are pushed
DecodedReplacing(app, buffer) ==
    LET res == MigrationFromFile(buffer) IN
    IF IsOk(res) /\ IsSome(res.val)
    THEN LET done == Convert(Unwrap(res.val).otp_parameters, <<>>, <<>>) IN
         IF done.panicked
         THEN [app EXCEPT !.output = done.output, !.panicked = TRUE]
         ELSE [app EXCEPT !.output = done.output,
                          !.error = ErrorMessage(done.errors),
                          !.render = TRUE]
    ELSE IF IsOk(res)
    THEN [app EXCEPT !.output = <<>>, !.error = Some(NoCodeMessage), !.render = TRUE]
    ELSE [app EXCEPT !.output = <<>>,
                     !.error = Some("Unknown error: " \o res.err),
                     !.render = TRUE]

\* lines 91-126: the arm taken once the reader was found and removed
Decoded(app, buffer) ==
    LET res == MigrationFromFile(buffer) IN
    IF IsOk(res) /\ IsSome(res.val)
    THEN LET done == Convert(Unwrap(res.val).otp_parameters, app.output, <<>>) IN
         IF done.panicked
         THEN [app EXCEPT !.output = done.output, !.panicked = TRUE]
         ELSE [app EXCEPT !.output = done.output,
                          !.error = ErrorMessage(done.errors),
                          !.render = TRUE]
    ELSE IF IsOk(res)
    THEN [app EXCEPT !.output = <<>>, !.error = Some(NoCodeMessage), !.render = TRUE]
    ELSE [app EXCEPT !.output = <<>>,
                     !.error = Some("Unknown error: " \o res.err),
                     !.render = TRUE]

\* UpdateLoaded with the reader looked up (get) and left in the map
UpdateLoadedKeep(app, file_name, buffer) ==
    IF file_name \notin DOMAIN app.readers
    THEN [app EXCEPT !.render = FALSE]
    ELSE Decoded(app, buffer)

\* lines 87-128: Msg::Loaded(file_name, buffer)
UpdateLoaded(app, file_name, buffer) ==
    IF file_name \notin DOMAIN app.readers
    THEN [app EXCEPT !.render = FALSE]
    ELSE Decoded([app EXCEPT !.readers = Remove(app.readers, file_name)], buffer)

RECURSIVE InsertReaders(_, _, _, _)
\* lines 69-84: file i of the upload registers the task <<upload, i>>
InsertReaders(map, files, upload, i) ==
    IF i > Len(files) THEN map
    ELSE InsertReaders(Insert(map, Name(files[i]), <<upload, i>>), files, upload, i + 1)

\* the reads lines 76-81 start: the read of task <<upload, i>> ends in
\* Msg::Loaded(Name(file), Bytes(file))
Reads(files, upload) ==
    {[task |-> <<upload, i>>, file |-> files[i]] : i \in 1..Len(files)}

\* lines 65-86: Msg::Files(files)
UpdateFiles(app, files, upload) ==
    [app EXCEPT !.readers = InsertReaders(<<>>, files, upload, 1),
                !.output = <<>>,
                !.render = TRUE]

\* UpdateShowSvg without the else branch of line 134
UpdateShowSvgOnly(app, url) ==
    [app EXCEPT !.output =
        [i \in 1..Len(app.output) |->
            IF app.output[i].url = url
            THEN [app.output[i] EXCEPT !.show_svg = ~app.output[i].show_svg]
            ELSE app.output[i]],
                !.render = TRUE]

\* lines 129-138: Msg::ShowSvg(url)
UpdateShowSvg(app, url) ==
    [app EXCEPT !.output =
        [i \in 1..Len(app.output) |->
            IF app.output[i].url = url
            THEN [app.output[i] EXCEPT !.show_svg = ~app.output[i].show_svg]
            ELSE [app.output[i] EXCEPT !.show_svg = FALSE]],
                !.render = TRUE]

CopyStates == {"Copied", "Failed"}

\* lines 139-148: Msg::Copied(url, state)
UpdateCopied(app, url, state) ==
    [app EXCEPT !.output =
        [i \in 1..Len(app.output) |->
            IF app.output[i].url = url
            THEN [app.output[i] EXCEPT !.copied = Some(state)]
            ELSE [app.output[i] EXCEPT !.copied = None]],
                !.render = TRUE]

----------------------------------------------------------------------------
(* The component as a state machine.  A read started by a Files message    *)
(* stays pending until it ends: with a Loaded message, or with a read      *)
(* error, on which the callback panics (expect, line 79) and no message is *)
(* sent.  A later Files message does not withdraw a pending read: line 88  *)
(* is the code's guard against the Loaded message of such a read.  After a *)
(* panic inside update the component handles nothing more.                 *)

\* last: the message, for a Loaded message its read and whether its reader
\* was found, the value update returned, and the length of the output list
\* when the message arrived
Last(msg, read, accepted, render) ==
    [msg |-> msg, read |-> read, accepted |-> accepted, render |-> render,
     before |-> Len(output)]

Install(app) ==
    /\ readers' = app.readers
    /\ output' = app.output
    /\ error' = app.error
    /\ panicked' = app.panicked

Init ==
    /\ readers = <<>>
    /\ output = <<>>
    /\ error = None
    /\ pending = {}
    /\ uploads = 0
    /\ started = 0
    /\ clicks = 0
    /\ panicked = FALSE
    /\ last = Last("create", None, FALSE, FALSE)
    /\ dbuf = None
    /\ dres = None
    /\ cparams = None
    /\ cres = None
    /\ timg = None
    /\ tres = None

\* Msg::Files(files), in a behaviour of at most reads reads
FilesUpTo(files, reads) ==
    /\ ~panicked
    /\ uploads < MaxUploads
    /\ started + Len(files) <= reads
    /\ LET app == UpdateFiles(Current, files, uploads + 1) IN
       /\ Install(app)
       /\ last' = Last("Files", None, FALSE, app.render)
    /\ pending' = pending \cup Reads(files, uploads + 1)
    /\ uploads' = uploads + 1
    /\ started' = started + Len(files)
    /\ UNCHANGED <<clicks, decVars>>

Files(files) == FilesUpTo(files, MaxReads)

Loaded(read) ==
    /\ ~panicked
    /\ read \in pending
    /\ LET app == UpdateLoaded(Current, Name(read.file), Bytes(read.file)) IN
       /\ Install(app)
       /\ last' = Last("Loaded", Some(read), Name(read.file) \in DOMAIN readers, app.render)
    /\ pending' = pending \ {read}
    /\ UNCHANGED <<uploads, started, clicks, decVars>>

\* lines 76-80: the read ends in an error and the callback panics
ReadFailed(read) ==
    /\ ~panicked
    /\ read \in pending
    /\ pending' = pending \ {read}
    /\ last' = Last("ReadFailed", Some(read), FALSE, FALSE)
    /\ UNCHANGED <<readers, output, error, panicked, uploads, started, clicks, decVars>>

\* the URLs the buttons of the page carry
Urls == {output[i].url : i \in 1..Len(output)}

\* the URLs a clipboard write can report on: it ends after the click, when
\* the list may have changed
CopiedUrls ==
    {Converted[params].val.url : params \in {a \in Accounts : IsOk(Converted[a])}}

ShowSvg(url) ==
    /\ ~panicked
    /\ clicks < MaxClicks
    /\ LET app == UpdateShowSvg(Current, url) IN
       /\ Install(app)
       /\ last' = Last("ShowSvg", None, FALSE, app.render)
    /\ clicks' = clicks + 1
    /\ UNCHANGED <<pending, uploads, started, decVars>>

Copied(url, state) ==
    /\ ~panicked
    /\ clicks < MaxClicks
    /\ LET app == UpdateCopied(Current, url, state) IN
       /\ Install(app)
       /\ last' = Last("Copied", None, FALSE, app.render)
    /\ clicks' = clicks + 1
    /\ UNCHANGED <<pending, uploads, started, decVars>>

Next ==
    \/ \E files \in SeqUpTo(FileHandles, MaxFiles) : Files(files)
    \/ \E read \in pending : Loaded(read)
    \/ \E read \in pending : ReadFailed(read)
    \/ \E url \in Urls : ShowSvg(url)
    \/ \E url \in CopiedUrls, state \in CopyStates : Copied(url, state)

Spec == Init /\ [][Next]_vars

----------------------------------------------------------------------------
(* The component with the files a.png and b.png only: one read more fits   *)
(* a behaviour, so that an upload can follow one that has set the error    *)
(* and has left a read pending.                                            *)

StaleFiles == {"one", "none", "binarized"}

NextStale ==
    \/ \E files \in SeqUpTo(StaleFiles, MaxFiles) : FilesUpTo(files, MaxStaleReads)
    \/ \E read \in pending : Loaded(read)
    \/ \E read \in pending : ReadFailed(read)
    \/ \E url \in Urls : ShowSvg(url)
    \/ \E url \in CopiedUrls, state \in CopyStates : Copied(url, state)

SpecStale == Init /\ [][NextStale]_vars

----------------------------------------------------------------------------
(* migration_from_file as a function: applied once to each input, the       *)
(* bytes that are no image and every image of up to MaxGrids grids a pass. *)

InitDecode ==
    /\ readers = <<>>
    /\ output = <<>>
    /\ error = None
    /\ pending = {}
    /\ uploads = 0
    /\ started = 0
    /\ clicks = 0
    /\ panicked = FALSE
    /\ last = Last("create", None, FALSE, FALSE)
    /\ \/ dbuf = NotAnImage
       \/ \E plain \in Detections, binarized \in Detections :
             dbuf = Buffer(TRUE, plain, binarized)
    /\ dres = None
    /\ cparams = None
    /\ cres = None
    /\ timg = None
    /\ tres = None

Decode ==
    /\ dres = None
    /\ dres' = Some(MigrationFromFileRun(dbuf))
    /\ UNCHANGED <<dbuf, cparams, cres, timg, tres, appVars>>

NextDecode == Decode

SpecDecode == InitDecode /\ [][NextDecode]_vars

----------------------------------------------------------------------------
(* migration_to_output as a function: applied once to each account of      *)
(* three families: every combination of type, algorithm, digit count and   *)
(* counter with and without a name and an issuer; every name and issuer of *)
(* up to MaxText characters; every secret of up to MaxSecret bytes.        *)

TextChars == {"a", ":", " ", "&"}

Texts == SeqUpTo(TextChars, MaxText)

ByteValues == {0, 173, 255}

Secrets == SeqUpTo(ByteValues, MaxSecret) \cup {<<222, 173, 190, 239>>, <<72, 101, 108, 108, 111>>}

Counters == {0, 7, 42}

InitConvert ==
    /\ readers = <<>>
    /\ output = <<>>
    /\ error = None
    /\ pending = {}
    /\ uploads = 0
    /\ started = 0
    /\ clicks = 0
    /\ panicked = FALSE
    /\ last = Last("create", None, FALSE, FALSE)
    /\ dbuf = None
    /\ dres = None
    /\ \/ \E name \in {<<>>, ParamsTotp.name}, issuer \in {<<>>, ParamsTotp.issuer},
             algorithm \in OtpAlgorithms, digits \in OtpDigitCounts,
             type \in OtpTypes, counter \in Counters :
             cparams = OtpParameters(ParamsTotp.secret, name, issuer,
                                     algorithm, digits, type, counter)
       \/ \E name \in Texts, issuer \in Texts, type \in {"TOTP", "HOTP"} :
             cparams = OtpParameters(ParamsTotp.secret, name, issuer,
                                     "SHA256", "EIGHT", type, 7)
       \/ \E secret \in Secrets :
             cparams = OtpParameters(secret, ParamsHotp.name, <<>>,
                                     "UNSPECIFIED", "UNSPECIFIED", "TOTP", 0)
    /\ cres = None
    /\ timg = None
    /\ tres = None

ToOutput ==
    /\ cres = None
    /\ cres' = Some(MigrationToOutput(cparams))
    /\ UNCHANGED <<cparams, dbuf, dres, timg, tres, appVars>>

NextConvert == ToOutput

SpecConvert == InitConvert /\ [][NextConvert]_vars

----------------------------------------------------------------------------
(* The threshold filter of extract as a function: applied once, with and   *)
(* without the threshold flag, to every image of up to MaxPixels samples.  *)

\* the values of a Luma<u8> sample
Samples == 0..255

InitFilter ==
    /\ readers = <<>>
    /\ output = <<>>
    /\ error = None
    /\ pending = {}
    /\ uploads = 0
    /\ started = 0
    /\ clicks = 0
    /\ panicked = FALSE
    /\ last = Last("create", None, FALSE, FALSE)
    /\ dbuf = None
    /\ dres = None
    /\ cparams = None
    /\ cres = None
    /\ \E img \in SeqUpTo(Samples, MaxPixels), threshold \in BOOLEAN :
          timg = [img |-> img, threshold |-> threshold]
    /\ tres = None

Filter ==
    /\ tres = None
    /\ tres' = Some(ThresholdFilter(timg.img, timg.threshold))
    /\ UNCHANGED <<timg, dbuf, dres, cparams, cres, appVars>>

NextFilter == Filter

SpecFilter == InitFilter /\ [][NextFilter]_vars

----------------------------------------------------------------------------
(* The claims about migration_from_file, checked under SpecDecode.         *)

\* what the decode did, once it ran
Ran == dres # None

Run == Unwrap(dres)

\* the pass whose result migration_from_file returned
LastPass == Run.passes[Len(Run.passes)]

\* A symbol read off its fields: it decodes, its text is an absolute URL
\* with a data parameter, and the first data parameter is valid base64.
Readable(g) ==
    /\ g.decodes
    /\ g.content.absolute
    /\ \E i \in 1..Len(g.content.query) : g.content.query[i][1] = "data"

DataOf(g) ==
    LET i == CHOOSE k \in 1..Len(g.content.query) :
                 /\ g.content.query[k][1] = "data"
                 /\ \A j \in 1..(k - 1) : g.content.query[j][1] # "data"
    IN  g.content.query[i][2]

\* the scheme of the symbol's URL, as url.scheme() returns it
SchemeOf(g) == AsciiLowercase(g.content.scheme)

\* every stage succeeds on the symbol
Qualifies(g) ==
    /\ Readable(g)
    /\ SchemeOf(g) = "otpauth-migration"
    /\ DataOf(g).base64
    /\ DataOf(g).message.wellformed

PayloadOf(g) == DataOf(g).message.payload

\* an otpauth-migration URL whose data is base64 of an unparseable message
Malformed(g) ==
    /\ Readable(g)
    /\ SchemeOf(g) = "otpauth-migration"
    /\ DataOf(g).base64
    /\ ~DataOf(g).message.wellformed

\* the payload of the first qualifying symbol, if there is one
FirstQualifying(grids) ==
    IF \E i \in 1..Len(grids) : Qualifies(grids[i])
    THEN Some(PayloadOf(grids[CHOOSE i \in 1..Len(grids) :
                                  /\ Qualifies(grids[i])
                                  /\ \A j \in 1..(i - 1) : ~Qualifies(grids[j])]))
    ELSE None

\* C1: migration_from_file first runs extract with threshold = FALSE; a
\* payload found by that pass is the result and no second pass is run; if it
\* finds nothing, extract is run exactly once more, with threshold = TRUE,
\* and the result is that pass's; when both passes find nothing the result
\* is Ok(None), never an error.
C1_TwoPasses ==
    (Ran /\ dbuf.image) =>
        LET plain == Extract(dbuf, FALSE) IN
        /\ Run.passes[1] = FALSE
        /\ (IsOk(plain) /\ IsSome(plain.val)) =>
              (Run.passes = <<FALSE>> /\ Run.result = plain)
        /\ (IsOk(plain) /\ ~IsSome(plain.val)) =>
              (Run.passes = <<FALSE, TRUE>> /\ Run.result = Extract(dbuf, TRUE))
        /\ (\A t \in BOOLEAN : Extract(dbuf, t) = Ok(None)) => Run.result = Ok(None)

\* the binarized pass finds the payload the plain pass did not
C1_Witness ==
    /\ Ran
    /\ Run.passes = <<FALSE, TRUE>>
    /\ IsOk(Run.result)
    /\ IsSome(Run.result.val)
    /\ ~(\E i \in 1..Len(dbuf.grids[FALSE]) : Qualifies(dbuf.grids[FALSE][i]))

\* C2: the payload a pass returns is that of the first symbol, in detection
\* order, that passes every stage; later qualifying symbols are ignored.
C2_FirstQualifying ==
    (Ran /\ dbuf.image) => Run.result = Ok(FirstQualifying(dbuf.grids[LastPass]))

\* two qualifying symbols with different payloads: the first one's is returned
C2_Witness ==
    /\ Ran
    /\ dbuf.image
    /\ LET grids == dbuf.grids[LastPass] IN
       /\ Len(grids) = 2
       /\ Qualifies(grids[1])
       /\ Qualifies(grids[2])
       /\ PayloadOf(grids[1]) # PayloadOf(grids[2])
       /\ Run.result = Ok(Some(PayloadOf(grids[1])))

\* C3 as claimed: a symbol with an otpauth-migration URL whose data decodes
\* to an unparseable message makes the decode of the file fail with an
\* error.
C3_MalformedIsFatal ==
    (Ran /\ dbuf.image /\ \E t \in {Run.passes[k] : k \in 1..Len(Run.passes)} :
                              \E i \in 1..Len(dbuf.grids[t]) : Malformed(dbuf.grids[t][i]))
        => ~IsOk(Run.result)

\* C3, amended: such a symbol is skipped like any other symbol that does not
\* qualify: the result is never an error, the payload of a qualifying
\* symbol detected after it is returned, and when no symbol of the passes
\* run qualifies the result is Ok(None).
C3_MalformedIsSkipped ==
    (Ran /\ dbuf.image) =>
        \A t \in {Run.passes[k] : k \in 1..Len(Run.passes)} :
            \A i \in 1..Len(dbuf.grids[t]) :
                Malformed(dbuf.grids[t][i]) =>
                    /\ IsOk(Run.result)
                    /\ \A j \in (i + 1)..Len(dbuf.grids[t]) :
                          (/\ Qualifies(dbuf.grids[t][j])
                           /\ \A k \in 1..(j - 1) : ~Qualifies(dbuf.grids[t][k]))
                              => Run.result = Ok(Some(PayloadOf(dbuf.grids[t][j])))
                    /\ (\A u \in BOOLEAN : \A k \in 1..Len(dbuf.grids[u]) :
                            ~Qualifies(dbuf.grids[u][k]))
                          => Run.result = Ok(None)

\* a malformed symbol, then a qualifying one whose payload is returned
C3_Witness ==
    /\ Ran
    /\ dbuf.image
    /\ LET grids == dbuf.grids[LastPass] IN
       /\ Len(grids) = 2
       /\ Malformed(grids[1])
       /\ Qualifies(grids[2])
       /\ Run.result = Ok(Some(PayloadOf(grids[2])))

\* The symbols C4 lists, given whether the symbol's scheme counts as
\* otpauth-migration: the symbol fails QR decoding, is no absolute URL, has
\* another scheme, has no data parameter, or its data is not valid base64.
Listed(g, migration) ==
    \/ ~g.decodes
    \/ ~g.content.absolute
    \/ ~migration
    \/ ~Readable(g)
    \/ ~DataOf(g).base64

\* the scheme is exactly otpauth-migration, as written in the symbol
Exactly(g) == g.content.scheme = "otpauth-migration"

\* the scheme is otpauth-migration up to the case of its letters
IgnoringCase(g) == AsciiLowercase(g.content.scheme) = "otpauth-migration"

\* the symbols detected in the image, in either pass
Detected ==
    UNION {{dbuf.grids[t][i] : i \in 1..Len(dbuf.grids[t])} : t \in BOOLEAN}

\* C4 as claimed: with the scheme compared exactly, an image all of whose
\* symbols are listed yields Ok(None).
C4_SkippedExactScheme ==
    (Ran /\ dbuf.image /\ \A g \in Detected : Listed(g, Exactly(g)))
        => Run.result = Ok(None)

\* C4, amended: the scheme is compared after the URL parser has lowercased
\* it.  A listed symbol is skipped without an error: an image all of whose
\* symbols are listed yields Ok(None), and a pass whose first symbol is
\* listed and whose second qualifies returns the payload of the second.
C4_Skipped ==
    (Ran /\ dbuf.image) =>
        /\ (\A g \in Detected : Listed(g, IgnoringCase(g))) => Run.result = Ok(None)
        /\ LET grids == dbuf.grids[LastPass] IN
           (/\ Len(grids) = 2
            /\ Listed(grids[1], IgnoringCase(grids[1]))
            /\ Qualifies(grids[2])) => Run.result = Ok(Some(PayloadOf(grids[2])))

\* an http URL with a valid data parameter and a symbol that does not
\* decode: nothing is found
C4_Witness ==
    /\ Ran
    /\ dbuf.image
    /\ dbuf.grids[FALSE] = <<GridHttp, GridUndecodable>>
    /\ dbuf.grids[TRUE] = <<GridNotBase64, GridNoData>>
    /\ Run.result = Ok(None)

----------------------------------------------------------------------------
(* The claims about App::update, checked under Spec.                       *)

\* the latest step handled a Loaded message whose reader was registered
Accepted == last.msg = "Loaded" /\ last.accepted

\* the file of the Loaded message of record l, and what its decode returns
LoadedFile(l) == Unwrap(l.read).file

DecodeOf(l) == MigrationFromFile(Bytes(LoadedFile(l)))

\* ... and the decode returned a payload
AcceptedPayload(l) ==
    /\ l.msg = "Loaded"
    /\ l.accepted
    /\ IsOk(DecodeOf(l))
    /\ IsSome(DecodeOf(l).val)

BatchOf(l) == Unwrap(DecodeOf(l).val).otp_parameters

\* C5: bytes that are no image make migration_from_file return the error of
\* the first pass, with no second pass; the accepted Loaded event leaves
\* the output list empty and sets the error to a message other than the
\* "no valid code found" message.
C5_NotAnImage ==
    (Accepted /\ ~Bytes(LoadedFile(last)).image) =>
        /\ MigrationFromFileRun(Bytes(LoadedFile(last))).passes = <<FALSE>>
        /\ ~IsOk(MigrationFromFileRun(Bytes(LoadedFile(last))).result)
        /\ output = <<>>
        /\ IsSome(error)
        /\ error # Some(NoCodeMessage)
        /\ error = Some("Unknown error: " \o ImageError)

\* the bytes of c.png, which is no image, were handled while the list held
\* accounts
C5_Witness ==
    /\ Accepted
    /\ ~Bytes(LoadedFile(last)).image
    /\ last.before > 0
    /\ output = <<>>

Unspecified(params) == params.type = "UNSPECIFIED"

Specified(params) == params.type # "UNSPECIFIED"

\* C6: in a decoded batch every record of type UNSPECIFIED yields an error
\* and no output, and every other record is converted and appended to the
\* output list, in batch order, wherever the failing records are.
C6_OthersAppended ==
    AcceptedPayload(last) =>
        LET others == SelectSeq(BatchOf(last), Specified) IN
        /\ Len(output) = last.before + Len(others)
        /\ \A j \in 1..Len(others) :
              /\ output[last.before + j].name = Str(others[j].name)
              /\ output[last.before + j].secret = Base32Encode(others[j].secret)
        /\ (\E i \in 1..Len(BatchOf(last)) : Unspecified(BatchOf(last)[i])) => IsSome(error)

RECURSIVE Listing(_)
\* k error descriptions "unknown otp type", joined by ", "
Listing(k) ==
    IF k = 1 THEN "unknown otp type" ELSE "unknown otp type, " \o Listing(k - 1)

\* C7: after an accepted Loaded event whose decode succeeds with k failing
\* records, the error is cleared if k = 0, is "One account could not be
\* read: " and the error if k = 1, and is "k accounts could not be read: "
\* and the k errors joined by ", " if k > 1.
C7_ErrorMessage ==
    AcceptedPayload(last) =>
        LET k == Len(SelectSeq(BatchOf(last), Unspecified)) IN
        /\ k = 0 => error = None
        /\ k = 1 => error = Some("One account could not be read: unknown otp type")
        /\ k > 1 => error = Some(ToString(k) \o " accounts could not be read: " \o Listing(k))

\* C8 as claimed: after an accepted Loaded event whose decode succeeds the
\* output list is exactly the accounts converted from that payload.
C8_Replaced ==
    AcceptedPayload(last) => output = Convert(BatchOf(last), <<>>, <<>>).output

\* C8, amended: the accepted Loaded event appends the accounts converted
\* from its payload to the output list as it was: the accounts of the
\* files decoded before it are kept.
C8_Appended ==
    [][(pending' # pending /\ AcceptedPayload(last'))
          => output' = output \o Convert(BatchOf(last'), <<>>, <<>>).output]_vars

\* the accounts of a second file were appended to those of a first
C8_Witness ==
    /\ AcceptedPayload(last)
    /\ last.before > 0
    /\ Len(output) > last.before

Orders(S) ==
    {o \in [1..Cardinality(S) -> S] :
        \A i, j \in 1..Cardinality(S) : o[i] = o[j] => i = j}

RECURSIVE HandleAll(_, _)
\* the component after the Loaded events of the reads of order, in order
HandleAll(app, order) ==
    IF order = <<>> \/ app.panicked THEN app
    ELSE HandleAll(UpdateLoaded(app, Name(Head(order).file), Bytes(Head(order).file)),
                   Tail(order))

\* the accounts shown (whatever their order in the list) and the error
Shown(app) == <<{app.output[i] : i \in 1..Len(app.output)}, app.error>>

\* C10: the output and the error reached once all Loaded events of an
\* upload are handled are the same for every order in which its reads
\* complete.  Stated for the uploads whose files have different names (each
\* read has its own reader) and the orders in which no conversion panics,
\* and with the accounts compared whatever their order in the list.
C10_OrderIndependent ==
    last.msg = "Files" =>
        LET reads == {r \in pending : r.task[1] = uploads} IN
        (\A r1, r2 \in reads : Name(r1.file) = Name(r2.file) => r1 = r2) =>
            \A o1, o2 \in Orders(reads) :
                (~HandleAll(Current, o1).panicked /\ ~HandleAll(Current, o2).panicked)
                    => Shown(HandleAll(Current, o1)) = Shown(HandleAll(Current, o2))

\* processing the file yields an error: the decode fails, finds no code,
\* or finds a record that is not converted
Fails(file) ==
    LET res == MigrationFromFile(Bytes(file)) IN
    \/ ~IsOk(res)
    \/ ~IsSome(res.val)
    \/ \E i \in 1..Len(Unwrap(res.val).otp_parameters) :
          ~IsOk(Converted[Unwrap(res.val).otp_parameters[i]])

\* C11: if processing a file of an upload produced an error (of the decode,
\* "no code found", or of a record), the error message is set once all
\* Loaded events of the upload are handled, whatever the order of the
\* events.  Stated for the uploads whose files have different names and the
\* orders in which no conversion panics.
C11_ErrorsVisible ==
    last.msg = "Files" =>
        LET reads == {r \in pending : r.task[1] = uploads} IN
        (/\ \A r1, r2 \in reads : Name(r1.file) = Name(r2.file) => r1 = r2
         /\ \E r \in reads : Fails(r.file)) =>
            \A o \in Orders(reads) :
                ~HandleAll(Current, o).panicked => IsSome(HandleAll(Current, o).error)

\* C14: the conversion of a batch never aborts: after an accepted Loaded
\* event whose decode succeeds the component has not panicked, every record
\* that is not converted has left an error, and every other record of the
\* batch has been appended.
C14_NeverAborts ==
    AcceptedPayload(last) =>
        LET failing == SelectSeq(BatchOf(last), LAMBDA p : ~IsOk(Converted[p])) IN
        /\ ~panicked
        /\ failing # <<>> => IsSome(error)
        /\ Len(output) = last.before + Len(BatchOf(last)) - Len(failing)

\* C17: a Loaded event whose file name has no entry in readers changes
\* neither readers, output nor error and asks for no render; an accepted
\* Loaded event removes the entry of its file name, and only a Files message
\* adds entries: between two Files messages at most one Loaded event is
\* accepted for each file name, also when several files have the name.
C17_LoadedOnce ==
    [][/\ \A read \in pending :
             (pending' = pending \ {read} /\ last'.msg = "Loaded") =>
                 IF Name(read.file) \in DOMAIN readers
                 THEN /\ last'.accepted
                      /\ readers' = Remove(readers, Name(read.file))
                      /\ Name(read.file) \notin DOMAIN readers'
                 ELSE /\ ~last'.accepted
                      /\ readers' = readers
                      /\ output' = output
                      /\ error' = error
                      /\ ~last'.render
       /\ uploads' = uploads => DOMAIN readers' \subseteq DOMAIN readers]_vars

\* the second of two files of one upload with the same name was ignored,
\* after the first had been accepted and had filled the list
C17_Witness ==
    /\ last.msg = "Loaded"
    /\ ~last.accepted
    /\ Unwrap(last.read).task[1] = uploads
    /\ last.before > 0
    /\ output # <<>>

ShownUrls == {output[i].url : i \in {k \in 1..Len(output) : output[k].show_svg}}

\* C19: all outputs with show_svg = TRUE have the same URL; the outputs an
\* accepted Loaded event appends have show_svg = FALSE and copied = None;
\* ShowSvg(url) toggles show_svg on the outputs whose URL is url and
\* clears it on all others, and changes nothing else of the outputs, nor
\* their number, the error or the readers.
C19_OneShown ==
    /\ [](Cardinality(ShownUrls) <= 1)
    /\ [][(pending' # pending /\ AcceptedPayload(last')) =>
             \A i \in (Len(output) + 1)..Len(output') :
                 ~output'[i].show_svg /\ output'[i].copied = None]_vars
    /\ [][(clicks' # clicks /\ last'.msg = "ShowSvg") =>
             /\ Len(output') = Len(output)
             /\ error' = error
             /\ readers' = readers
             /\ \E url \in Urls :
                   \A i \in 1..Len(output) :
                       output'[i] =
                           [output[i] EXCEPT !.show_svg =
                               IF output[i].url = url THEN ~output[i].show_svg ELSE FALSE]]_vars

\* two accounts are listed; the symbol of one was shown, then that of the
\* other, which hid the first
C19_Witness ==
    /\ last.msg = "ShowSvg"
    /\ clicks = 2
    /\ Cardinality(Urls) = 2
    /\ Cardinality(ShownUrls) = 1

----------------------------------------------------------------------------
(* A reader of otpauth:// URLs, after the Key Uri Format the code refers   *)
(* to (line 406): otpauth://TYPE/LABEL?PARAMETERS, where LABEL is          *)
(* accountname / issuer (":" / "%3A") accountname, percent-encoded, and    *)
(* the parameters are secret, issuer, algorithm, digits and counter.       *)

\* the position of the first c in cs, 0 if there is none
IndexOf(cs, c) ==
    IF \E i \in 1..Len(cs) : cs[i] = c
    THEN CHOOSE i \in 1..Len(cs) : cs[i] = c /\ \A j \in 1..(i - 1) : cs[j] # c
    ELSE 0

\* cs up to its first c, and after it
Before(cs, c) == IF IndexOf(cs, c) = 0 THEN cs ELSE SubSeq(cs, 1, IndexOf(cs, c) - 1)

After(cs, c) == IF IndexOf(cs, c) = 0 THEN <<>> ELSE SubSeq(cs, IndexOf(cs, c) + 1, Len(cs))

RECURSIVE Split(_, _)
\* the pieces of cs between the occurrences of c
Split(cs, c) ==
    IF cs = <<>> THEN <<>>
    ELSE IF IndexOf(cs, c) = 0 THEN <<cs>>
    ELSE <<Before(cs, c)>> \o Split(After(cs, c), c)

HexDigits ==
    <<"0", "1", "2", "3", "4", "5", "6", "7", "8", "9", "A", "B", "C", "D", "E", "F">>

HexValue(h) == IndexOf(HexDigits, h) - 1

\* the ASCII character of a code
CharOfCode(n) ==
    CASE n = 32 -> " "
      [] n = 37 -> "%"
      [] n = 38 -> "&"
      [] n = 43 -> "+"
      [] n = 45 -> "-"
      [] n = 46 -> "."
      [] n = 47 -> "/"
      [] n = 58 -> ":"
      [] n = 61 -> "="
      [] n = 64 -> "@"

RECURSIVE PercentDecode(_)
\* every %XX replaced by the character of code XX
PercentDecode(cs) ==
    IF cs = <<>> THEN <<>>
    ELSE IF cs[1] = "%" /\ Len(cs) >= 3
    THEN <<CharOfCode(16 * HexValue(cs[2]) + HexValue(cs[3]))>>
             \o PercentDecode(SubSeq(cs, 4, Len(cs)))
    ELSE <<cs[1]>> \o PercentDecode(Tail(cs))

\* a key or a value of a query: '+' is a space, then percent-decoding
FormDecode(cs) ==
    PercentDecode([i \in 1..Len(cs) |-> IF cs[i] = "+" THEN " " ELSE cs[i]])

\* the pairs of a query string, in order
QueryPairs(query) ==
    LET pieces == Split(query, "&") IN
    [i \in 1..Len(pieces) |->
        <<FormDecode(Before(pieces[i], "=")), FormDecode(After(pieces[i], "="))>>]

\* the value of the first pair with the key, if any
Param(pairs, key) ==
    LET found == SelectSeq(pairs, LAMBDA pair : pair[1] = key) IN
    IF found = <<>> THEN None ELSE Some(found[1][2])

\* the bytes a base32 text without padding stands for
Base32Decode(cs) ==
    LET value(c) == IndexOf(Base32Alphabet, c) - 1
        bit(j) == (value(cs[(j \div 5) + 1]) \div (2 ^ (4 - (j % 5)))) % 2
    IN  [k \in 1..((5 * Len(cs)) \div 8) |->
            128 * bit(8 * k - 8) + 64 * bit(8 * k - 7) + 32 * bit(8 * k - 6)
            + 16 * bit(8 * k - 5) + 8 * bit(8 * k - 4) + 4 * bit(8 * k - 3)
            + 2 * bit(8 * k - 2) + bit(8 * k - 1)]

RECURSIVE ParseDecimal(_)
ParseDecimal(cs) ==
    IF cs = <<>> THEN 0
    ELSE 10 * ParseDecimal(SubSeq(cs, 1, Len(cs) - 1)) + (IndexOf(DigitChars, cs[Len(cs)]) - 1)

\* the algorithm and the digit count a parameter value names
AlgorithmOf(value) ==
    IF value = None THEN "UNSPECIFIED"
    ELSE CASE Unwrap(value) = <<"S", "H", "A", "1">> -> "SHA1"
           [] Unwrap(value) = <<"S", "H", "A", "2", "5", "6">> -> "SHA256"
           [] Unwrap(value) = <<"S", "H", "A", "5", "1", "2">> -> "SHA512"
           [] Unwrap(value) = <<"M", "D", "5">> -> "MD5"
           [] OTHER -> "unknown"

DigitsOf(value) ==
    IF value = None THEN "UNSPECIFIED"
    ELSE CASE Unwrap(value) = <<"6">> -> "SIX"
           [] Unwrap(value) = <<"8">> -> "EIGHT"
           [] OTHER -> "unknown"

\* The URL u read: its scheme and type, the keys of its query in order, and
\* the account it describes.  The issuer is the issuer parameter, or without
\* one the prefix of the label; the name is the label after its first colon.
ParseUrl(u) ==
    LET rest    == SubSeq(u, 11, Len(u))
        path    == After(rest, "/")
        label   == PercentDecode(Before(path, "?"))
        pairs   == QueryPairs(After(path, "?"))
        secret  == Param(pairs, Secret)
        counter == Param(pairs, Counter)
        issuer  == Param(pairs, Issuer)
        colon   == IndexOf(label, ":") > 0
    IN  [scheme    |-> SubSeq(u, 1, 10),
         kind      |-> Before(rest, "/"),
         keys      |-> [i \in 1..Len(pairs) |-> pairs[i][1]],
         pairs     |-> pairs,
         secret    |-> IF secret = None THEN None ELSE Some(Base32Decode(Unwrap(secret))),
         counter   |-> IF counter = None THEN None ELSE Some(ParseDecimal(Unwrap(counter))),
         issuer    |-> IF issuer # None THEN Unwrap(issuer)
                       ELSE IF colon THEN Before(label, ":") ELSE <<>>,
         name      |-> IF colon THEN After(label, ":") ELSE label,
         algorithm |-> AlgorithmOf(Param(pairs, Algorithm)),
         digits    |-> DigitsOf(Param(pairs, DigitsKey))]

----------------------------------------------------------------------------
(* The claims about migration_to_output, checked under SpecConvert.        *)

Converts == cres # None

Result == Unwrap(cres)

\* the account is converted: its URL, read
Parsed == ParseUrl(UrlChars(cparams))

\* C12: a record of type HOTP or TOTP is converted, and its URL is
\* otpauth://{kind}/{label}?{query} where kind is hotp or totp and the keys
\* of the query are, in this order, secret, counter iff the type is HOTP,
\* issuer iff the issuer is not empty, algorithm iff the algorithm is not
\* UNSPECIFIED (its value SHA1, SHA256, SHA512 or MD5, as the record's) and
\* digits iff the digit count is not UNSPECIFIED (its value 6 or 8).
C12_UrlFormat ==
    (Converts /\ cparams.type \in {"HOTP", "TOTP"}) =>
        LET parsed == Parsed IN
        /\ IsOk(Result)
        /\ Result.val.url = Str(UrlChars(cparams))
        /\ parsed.scheme = <<"o", "t", "p", "a", "u", "t", "h", ":", "/", "/">>
        /\ parsed.kind = IF cparams.type = "HOTP" THEN <<"h", "o", "t", "p">>
                         ELSE <<"t", "o", "t", "p">>
        /\ parsed.keys =
              <<Secret>>
              \o (IF cparams.type = "HOTP" THEN <<Counter>> ELSE <<>>)
              \o (IF cparams.issuer # <<>> THEN <<Issuer>> ELSE <<>>)
              \o (IF cparams.algorithm # "UNSPECIFIED" THEN <<Algorithm>> ELSE <<>>)
              \o (IF cparams.digits # "UNSPECIFIED" THEN <<DigitsKey>> ELSE <<>>)
        /\ cparams.algorithm # "UNSPECIFIED" =>
              /\ parsed.algorithm \in {"SHA1", "SHA256", "SHA512", "MD5"}
              /\ parsed.algorithm = cparams.algorithm
        /\ cparams.digits # "UNSPECIFIED" =>
              /\ parsed.digits \in {"SIX", "EIGHT"}
              /\ parsed.digits = cparams.digits

\* an HOTP record with an issuer, an algorithm and a digit count: its URL
\* has all five keys
C12_Witness ==
    /\ Converts
    /\ IsOk(Result)
    /\ cparams.type = "HOTP"
    /\ cparams.issuer # <<>>
    /\ cparams.algorithm = "SHA512"
    /\ cparams.digits = "EIGHT"
    /\ Len(Parsed.keys) = 5

\* C13: for every convertible record, also one whose name or issuer is
\* empty or holds ':' or other characters that are no letters or digits,
\* reading the URL recovers the secret, the issuer, the name, the algorithm,
\* the digit count and, for HOTP, the counter.
C13_RoundTrip ==
    (Converts /\ IsOk(Result)) =>
        LET parsed == Parsed IN
        /\ parsed.secret = Some(cparams.secret)
        /\ parsed.issuer = cparams.issuer
        /\ parsed.name = cparams.name
        /\ parsed.algorithm = cparams.algorithm
        /\ parsed.digits = cparams.digits
        /\ cparams.type = "HOTP" => parsed.counter = Some(cparams.counter)

\* the secret of the output, character by character
SecretChars == Base32Chars(cparams.secret)

\* C15 as claimed: the secret of the output is the unpadded RFC 4648 base32
\* text of the record's secret, and for DE AD BE EF it is 3158Q7Y.
C15_Base32AsClaimed ==
    (Converts /\ IsOk(Result)) =>
        /\ Result.val.secret = Str(SecretChars)
        /\ \A i \in 1..Len(SecretChars) :
              SecretChars[i] \in {Base32Alphabet[k] : k \in 1..32}
        /\ cparams.secret = <<222, 173, 190, 239>> => Result.val.secret = "3158Q7Y"

\* C15, amended: the secret of the output is the RFC 4648 base32 text of the
\* record's secret without padding: one character for every 5 bits, each of
\* the RFC 4648 alphabet (so no '='), which stands for the bytes of the
\* secret followed by zero bits; for DE AD BE EF it is 32W353Y.
C15_Base32 ==
    (Converts /\ IsOk(Result)) =>
        /\ Result.val.secret = Str(SecretChars)
        /\ Len(SecretChars) = (8 * Len(cparams.secret) + 4) \div 5
        /\ \A i \in 1..Len(SecretChars) :
              /\ SecretChars[i] \in {Base32Alphabet[k] : k \in 1..32}
              /\ SecretChars[i] # "="
        /\ Base32Decode(SecretChars) = cparams.secret
        /\ SecretChars # <<>> =>
              (IndexOf(Base32Alphabet, SecretChars[Len(SecretChars)]) - 1)
                  % (2 ^ (5 * Len(SecretChars) - 8 * Len(cparams.secret))) = 0
        /\ cparams.secret = <<222, 173, 190, 239>> => Result.val.secret = "32W353Y"

\* the secret DE AD BE EF was converted
C15_Witness ==
    /\ Converts
    /\ IsOk(Result)
    /\ cparams.secret = <<222, 173, 190, 239>>
    /\ Result.val.secret = "32W353Y"

----------------------------------------------------------------------------
(* The claim about the threshold filter, checked under SpecFilter.         *)

\* C16: with threshold = TRUE every sample s is replaced by 255 if s > 128
\* and by 0 otherwise, so 128 becomes 0 and every resulting sample is 0 or
\* 255; with threshold = FALSE no sample is changed.
C16_Threshold ==
    tres # None =>
        LET out == Unwrap(tres) IN
        /\ Len(out) = Len(timg.img)
        /\ timg.threshold =>
              \A i \in 1..Len(out) :
                  /\ out[i] = IF timg.img[i] > 128 THEN 255 ELSE 0
                  /\ out[i] \in {0, 255}
                  /\ timg.img[i] = 128 => out[i] = 0
        /\ ~timg.threshold => out = timg.img

\* the sample 128 was filtered, and became 0
C16_Witness ==
    /\ tres # None
    /\ timg.threshold
    /\ timg.img = <<128>>
    /\ Unwrap(tres) = <<0>>

====
